---- MODULE Spec2Model ----
(***************************************************************************)
(* A model of flatten.py, the register-map compiler: the integer literal   *)
(* parser, the mask validator, the identifier deriver, the type resolver,  *)
(* the composite naming with its deduplication set, the address            *)
(* initialisers and the root driver.                                       *)
(*                                                                         *)
(* Python strings are sequences of one-character strings.  Python integers *)
(* that can exceed 31 bits (masks) are little-endian bit sequences without *)
(* leading zero bits, so that 0 is <<>> and 0xffffffff is 32 ones.         *)
(***************************************************************************)
EXTENDS Integers, Sequences, FiniteSets, TLC

VARIABLES
    mask, m, cmPc,                  \* checkMask: argument, local m, position
    nameNode, nameResult,           \* nodeName: argument, outcome
    schema, hashOf,                 \* the parsed document's root node, md5 prefixes
    pc, stack, callee,              \* the driver's position, nodeStruct frames
    ALREADY_DECLARED,               \* the module-level deduplication set
    text,                           \* what nodeStruct calls have returned so far
    stdout,                         \* what print has written
    error,                          \* the exception that ended the run
    initCalls                       \* the nodeAddrInitializer calls made

maskVars == <<mask, m, cmPc>>
nameVars == <<nameNode, nameResult>>
runVars == <<schema, hashOf, pc, stack, callee, ALREADY_DECLARED, text, stdout,
             error, initCalls>>
vars == <<mask, m, cmPc, nameNode, nameResult, schema, hashOf, pc, stack, callee,
          ALREADY_DECLARED, text, stdout, error, initCalls>>

(***************************************************************************)
(* Bounds of the explored inputs.                                          *)
(***************************************************************************)
MaskBits == 5
MaxIdTokens == 3
HashSpace == 2
MaxGenerateSize == 2

(***************************************************************************)
(* Sequences and bit sequences.                                            *)
(***************************************************************************)
RECURSIVE Flatten(_)
Flatten(ss) ==
    IF ss = <<>> THEN <<>> ELSE Head(ss) \o Flatten(Tail(ss))

RECURSIVE SeqsUpTo(_, _)
SeqsUpTo(S, n) ==
    IF n = 0 THEN {<<>>}
    ELSE LET shorter == SeqsUpTo(S, n - 1)
         IN  shorter \cup {Append(s, x) : s \in shorter, x \in S}

RECURSIVE Repeat(_, _)
Repeat(x, n) ==
    IF n = 0 THEN <<>> ELSE <<x>> \o Repeat(x, n - 1)

RECURSIVE Pow2(_)
Pow2(n) ==
    IF n = 0 THEN 1 ELSE 2 * Pow2(n - 1)

RECURSIVE NatToBits(_)
NatToBits(n) ==
    IF n = 0 THEN <<>> ELSE <<n % 2>> \o NatToBits(n \div 2)

RECURSIVE BitsToNat(_)
BitsToNat(b) ==
    IF b = <<>> THEN 0 ELSE Head(b) + 2 * BitsToNat(Tail(b))

TrimBits(b) ==
    LET ones == {k \in 1..Len(b) : b[k] = 1}
    IN  IF ones = {} THEN <<>>
        ELSE SubSeq(b, 1, CHOOSE k \in ones : \A j \in ones : j <= k)

FullMask == Repeat(1, 32)

\* Op applied to the value of x, evaluated once.
With(x, Op(_)) == CHOOSE r \in {Op(v) : v \in {x}} : TRUE

(***************************************************************************)
(* checkMask(mask), one step per loop test.                                *)
(***************************************************************************)
LowBit(b) == IF b = <<>> THEN 0 ELSE Head(b)

ShiftRight(b) == IF b = <<>> THEN <<>> ELSE Tail(b)

CheckMaskCall ==
    /\ cmPc = "call"
    /\ m' = mask
    /\ cmPc' = "zeros"
    /\ UNCHANGED <<mask, nameVars, runVars>>

\* A checkMask that goes to the ones without discarding the trailing zeros:
\* C4 does not hold of it (0b11100 would raise).
DiscardZerosSkipped ==
    /\ cmPc = "zeros"
    /\ m' = m
    /\ cmPc' = "ones"
    /\ UNCHANGED <<mask, nameVars, runVars>>

DiscardZeros ==
    /\ cmPc = "zeros"
    /\ IF LowBit(m) = 0
       THEN m' = ShiftRight(m) /\ cmPc' = cmPc
       ELSE m' = m /\ cmPc' = "ones"
    /\ UNCHANGED <<mask, nameVars, runVars>>

DiscardOnes ==
    /\ cmPc = "ones"
    /\ IF LowBit(m) = 1
       THEN m' = ShiftRight(m) /\ cmPc' = cmPc
       ELSE m' = m /\ cmPc' = "test"
    /\ UNCHANGED <<mask, nameVars, runVars>>

CheckMaskRaise ==
    /\ cmPc = "test"
    /\ m # <<>>
    /\ cmPc' = "raised"
    /\ UNCHANGED <<mask, m, nameVars, runVars>>

CheckMaskReturn ==
    /\ cmPc = "test"
    /\ m = <<>>
    /\ cmPc' = "returned"
    /\ UNCHANGED <<mask, m, nameVars, runVars>>

(***************************************************************************)
(* Schema nodes.  An integer-literal attribute is its prefix and digits;   *)
(* an absent attribute (node.get() returning None) has prefix "None".      *)
(***************************************************************************)
NoLit == [pre |-> "None", digits |-> <<>>]

Hex(ds) == [pre |-> "0x", digits |-> ds]

Bin(ds) == [pre |-> "0b", digits |-> ds]

Dec(ds) == [pre |-> "", digits |-> ds]

NoDescription == "None"

Node(id, description, address, permission, msk, children) ==
    [id |-> id, description |-> description, address |-> address,
     permission |-> permission, mask |-> msk, generate |-> FALSE,
     generate_idx_var |-> <<>>, generate_size |-> NoLit,
     generate_address_step |-> NoLit, children |-> children]

Generated(node, idxVar, size, step) ==
    [node EXCEPT !.generate = TRUE, !.generate_idx_var = idxVar,
                 !.generate_size = size, !.generate_address_step = step]

(***************************************************************************)
(* parseInt(s): None for None, else int(s, 16), int(s, 2) or int(s) by     *)
(* prefix; int() raises ValueError on a digit the base does not have.      *)
(***************************************************************************)
RECURSIVE HexBits(_)
HexBits(ds) ==
    IF ds = <<>> THEN <<>>
    ELSE HexBits(Tail(ds)) \o
         <<Head(ds) % 2, (Head(ds) \div 2) % 2, (Head(ds) \div 4) % 2,
           (Head(ds) \div 8) % 2>>

RECURSIVE Reverse(_)
Reverse(s) ==
    IF s = <<>> THEN <<>> ELSE Append(Reverse(Tail(s)), Head(s))

RECURSIVE DecValue(_, _)
DecValue(ds, acc) ==
    IF ds = <<>> THEN acc ELSE DecValue(Tail(ds), 10 * acc + Head(ds))

DigitsBelow(ds, base) ==
    /\ ds # <<>>
    /\ \A k \in 1..Len(ds) : ds[k] < base

parseInt(s) ==
    IF s.pre = "None" THEN [err |-> "none", isNone |-> TRUE, bits |-> <<>>]
    ELSE IF s.pre = "0x"
    THEN IF DigitsBelow(s.digits, 16)
         THEN [err |-> "none", isNone |-> FALSE, bits |-> TrimBits(HexBits(s.digits))]
         ELSE [err |-> "MalformedLiteral", isNone |-> FALSE, bits |-> <<>>]
    ELSE IF s.pre = "0b"
    THEN IF DigitsBelow(s.digits, 2)
         THEN [err |-> "none", isNone |-> FALSE, bits |-> TrimBits(Reverse(s.digits))]
         ELSE [err |-> "MalformedLiteral", isNone |-> FALSE, bits |-> <<>>]
    ELSE IF DigitsBelow(s.digits, 10)
         THEN [err |-> "none", isNone |-> FALSE,
               bits |-> NatToBits(DecValue(s.digits, 0))]
         ELSE [err |-> "MalformedLiteral", isNone |-> FALSE, bits |-> <<>>]

(***************************************************************************)
(* nodeName(node).                                                         *)
(***************************************************************************)
Letters ==
    {"a", "b", "c", "d", "e", "f", "g", "h", "i", "j", "k", "l", "m", "n", "o",
     "p", "q", "r", "s", "t", "u", "v", "w", "x", "y", "z"}

Digits == {"0", "1", "2", "3", "4", "5", "6", "7", "8", "9"}

Whitespace == {" "}

isidentifier(s) ==
    /\ s # <<>>
    /\ s[1] \in Letters \cup {"_"}
    /\ \A k \in 1..Len(s) : s[k] \in Letters \cup Digits \cup {"_"}

strip(s) ==
    LET kept == {k \in 1..Len(s) : s[k] \notin Whitespace}
    IN  IF kept = {} THEN <<>>
        ELSE SubSeq(s, CHOOSE k \in kept : \A j \in kept : k <= j,
                       CHOOSE k \in kept : \A j \in kept : j <= k)

StartsWith(s, prefix) ==
    /\ Len(s) >= Len(prefix)
    /\ SubSeq(s, 1, Len(prefix)) = prefix

\* re.sub(r'_?\$\{' + idxVar + r'\}', '', s) from position i on: leftmost,
\* non-overlapping, one pass; idxVar holds no regular-expression metacharacter.
RECURSIVE reSubFrom(_, _, _)
reSubFrom(idxVar, s, i) ==
    LET placeholder == <<"$", "{">> \o idxVar \o <<"}">>
        rest == SubSeq(s, i, Len(s))
    IN  IF i > Len(s) THEN <<>>
        ELSE IF StartsWith(rest, <<"_">> \o placeholder)
        THEN reSubFrom(idxVar, s, i + Len(placeholder) + 1)
        ELSE IF StartsWith(rest, placeholder)
        THEN reSubFrom(idxVar, s, i + Len(placeholder))
        ELSE <<s[i]>> \o reSubFrom(idxVar, s, i + 1)

reSub(idxVar, s) == reSubFrom(idxVar, s, 1)

RegPrefix == <<"r", "e", "g", "_">>

Candidate(node) ==
    IF ~node.generate THEN strip(node.id)
    ELSE With(reSub(node.generate_idx_var, node.id), LAMBDA removed : strip(removed))

Prefixed(name) ==
    IF ~isidentifier(name) THEN RegPrefix \o name ELSE name

\* A nodeName that returns the prefixed name without the final test: C8 does
\* not hold of it ("$" would come back as reg_$).
CheckedNever(name) ==
    [err |-> "none", name |-> name]

Checked(name) ==
    IF ~isidentifier(name)
    THEN [err |-> "InvalidIdentifier", name |-> <<>>]
    ELSE [err |-> "none", name |-> name]

nodeName(node) ==
    With(Candidate(node), LAMBDA name :
        With(Prefixed(name), LAMBDA prefixed : Checked(prefixed)))

NodeNameReturn ==
    /\ nameResult.err = "pending"
    /\ \E result \in {nodeName(nameNode)} :
           /\ result.err = "none"
           /\ nameResult' = result
    /\ UNCHANGED <<nameNode, maskVars, runVars>>

NodeNameRaise ==
    /\ nameResult.err = "pending"
    /\ \E result \in {nodeName(nameNode)} :
           /\ result.err # "none"
           /\ nameResult' = result
    /\ UNCHANGED <<nameNode, maskVars, runVars>>

(***************************************************************************)
(* The schema tree.  A position in it is the path of child indices from    *)
(* the root; len(node) is the number of children.                          *)
(***************************************************************************)
RECURSIVE NodeAt(_, _)
NodeAt(node, path) ==
    IF path = <<>> THEN node ELSE NodeAt(node.children[Head(path)], Tail(path))

RECURSIVE PathsOf(_)
PathsOf(node) ==
    {<<>>} \cup UNION {{<<k>> \o p : p \in PathsOf(node.children[k])} :
                        k \in 1..Len(node.children)}

IsComposite(node) == Len(node.children) > 0

Composites(root) ==
    {NodeAt(root, p) : p \in {q \in PathsOf(root) : IsComposite(NodeAt(root, q))}}

Contains(s, c) == \E k \in 1..Len(s) : s[k] = c

FirstError(errs) ==
    IF \A k \in 1..Len(errs) : errs[k] = "none" THEN "none"
    ELSE errs[CHOOSE k \in 1..Len(errs) :
                  /\ errs[k] # "none"
                  /\ \A j \in 1..(k - 1) : errs[j] = "none"]

(***************************************************************************)
(* nodeStructName(node): nodeName(node), '_', the first four hexadecimal   *)
(* digits of md5(xml.tostring(node)).  The serialisation covers the node's *)
(* own attributes and its whole subtree; hashOf is the digest prefix of    *)
(* each serialisation, a value out of HashSpace.                           *)
(***************************************************************************)
NoStruct == [name |-> <<>>, hash |-> 0]

nodeStructName(node) ==
    With(nodeName(node), LAMBDA name :
        IF name.err # "none" THEN [err |-> name.err, val |-> NoStruct]
        ELSE [err |-> "none", val |-> [name |-> name.name, hash |-> hashOf[node]]])

(***************************************************************************)
(* nodeBaseType(node), nodeType(node), nodeDecl(node, baseAddress).        *)
(***************************************************************************)
LeafType(read, write) ==
    IF read /\ write
    THEN [err |-> "none", base |-> "read_write_type", struct |-> NoStruct]
    ELSE IF read
    THEN [err |-> "none", base |-> "read_only_type", struct |-> NoStruct]
    ELSE IF write
    THEN [err |-> "none", base |-> "write_only_type", struct |-> NoStruct]
    ELSE [err |-> "NoPermission", base |-> "", struct |-> NoStruct]

nodeBaseType(node) ==
    IF Len(node.children) > 0
    THEN With(nodeStructName(node), LAMBDA sn :
             [err |-> sn.err, base |-> "struct", struct |-> sn.val])
    ELSE LeafType(Contains(node.permission, "r"), Contains(node.permission, "w"))

nodeType(node) ==
    With(nodeBaseType(node), LAMBDA baseType :
        [err |-> baseType.err, base |-> baseType.base, struct |-> baseType.struct,
         array |-> IF ~node.generate THEN NoLit ELSE node.generate_size])

nodeDecl(node) ==
    With(nodeType(node), LAMBDA type :
        IF type.err # "none"
        THEN [err |-> type.err, doc |-> node.description, type |-> type, name |-> <<>>]
        ELSE With(nodeName(node), LAMBDA name :
                 [err |-> name.err, doc |-> node.description, type |-> type,
                  name |-> name.name]))

(***************************************************************************)
(* checkMask(mask) as called from nodeAddrInitializer: its outcome.  The   *)
(* first loop never leaves mask 0, so that call does not return.           *)
(***************************************************************************)
RECURSIVE DropWhile(_, _)
DropWhile(b, bit) ==
    IF b # <<>> /\ Head(b) = bit THEN DropWhile(Tail(b), bit) ELSE b

checkMask(msk) ==
    IF msk = <<>> THEN "diverges"
    ELSE With(DropWhile(msk, 0), LAMBDA afterZeros :
             IF DropWhile(afterZeros, 1) # <<>> THEN "raised" ELSE "returned")

(***************************************************************************)
(* nodeAddrInitializer(node), nodeAddrConstructor(node, baseAddress).      *)
(***************************************************************************)
DefaultMask == Hex(<<15, 15, 15, 15, 15, 15, 15, 15>>)

Raised(e) ==
    [err |-> e, kind |-> "", address |-> 0, mask |-> <<>>, withMask |-> FALSE]

\* A leaf initializer without the test of lines 200-202: C6 does not hold of
\* it (a masked register that is only writable would be accepted).
LeafInitializerUnchecked(node, address, msk, read, write) ==
    IF msk.err # "none" THEN Raised(msk.err)
    ELSE With(checkMask(msk.bits), LAMBDA checked :
             IF checked = "diverges" THEN Raised("diverges")
             ELSE IF checked = "raised" THEN Raised("NonContiguousMask")
             ELSE IF read
             THEN [err |-> "none", kind |-> "getAddress", address |-> address,
                   mask |-> msk.bits, withMask |-> TRUE]
             ELSE [err |-> "none", kind |-> "getAddress", address |-> address,
                   mask |-> <<>>, withMask |-> FALSE])

LeafInitializer(node, address, msk, read, write) ==
    IF msk.err # "none" THEN Raised(msk.err)
    ELSE With(checkMask(msk.bits), LAMBDA checked :
             IF checked = "diverges" THEN Raised("diverges")
             ELSE IF checked = "raised" THEN Raised("NonContiguousMask")
             ELSE IF msk.bits # FullMask /\ write /\ ~read
             THEN With(nodeName(node), LAMBDA name :
                      IF name.err # "none" THEN Raised(name.err)
                      ELSE Raised("InvalidMaskedWrite"))
             ELSE IF read
             THEN [err |-> "none", kind |-> "getAddress", address |-> address,
                   mask |-> msk.bits, withMask |-> TRUE]
             ELSE [err |-> "none", kind |-> "getAddress", address |-> address,
                   mask |-> <<>>, withMask |-> FALSE])

nodeAddrInitializer(node) ==
    With(parseInt(node.address), LAMBDA parsed :
        IF parsed.err # "none" THEN Raised(parsed.err)
        ELSE With(IF parsed.isNone THEN 0 ELSE BitsToNat(parsed.bits), LAMBDA address :
            IF Len(node.children) = 0
            THEN With(parseInt(IF node.mask = NoLit THEN DefaultMask ELSE node.mask),
                      LAMBDA msk :
                         LeafInitializer(node, address, msk,
                                         Contains(node.permission, "r"),
                                         Contains(node.permission, "w")))
            ELSE [err |-> "none", kind |-> "base", address |-> address,
                  mask |-> <<>>, withMask |-> FALSE]))

GeneratedConstructor(node, generateSize, generateAddressStep) ==
    IF generateSize.err # "none"
    THEN [err |-> generateSize.err, name |-> <<>>, array |-> TRUE, inits |-> <<>>,
          called |-> FALSE]
    ELSE IF generateAddressStep.err # "none"
    THEN [err |-> generateAddressStep.err, name |-> <<>>, array |-> TRUE,
          inits |-> <<>>, called |-> FALSE]
    ELSE IF generateSize.isNone
    THEN [err |-> "TypeError", name |-> <<>>, array |-> TRUE, inits |-> <<>>,
          called |-> FALSE]
    ELSE IF generateSize.bits = <<>>
    THEN [err |-> "none", name |-> nodeName(node).name, array |-> TRUE,
          inits |-> <<>>, called |-> FALSE]
    ELSE With(nodeAddrInitializer(node), LAMBDA init :
             [err |-> init.err, name |-> nodeName(node).name, array |-> TRUE,
              inits |-> IF init.err = "none"
                        THEN Repeat(init, BitsToNat(generateSize.bits)) ELSE <<>>,
              called |-> TRUE])

nodeAddrConstructor(node) ==
    IF ~node.generate
    THEN With(nodeAddrInitializer(node), LAMBDA init :
             [err |-> init.err, name |-> nodeName(node).name, array |-> FALSE,
              inits |-> <<init>>, called |-> TRUE])
    ELSE With(parseInt(node.generate_size), LAMBDA generateSize :
             With(parseInt(node.generate_address_step), LAMBDA generateAddressStep :
                 GeneratedConstructor(node, generateSize, generateAddressStep)))

(***************************************************************************)
(* nodeGenInitializer(node, otherName), nodeGenConstructor(node).          *)
(***************************************************************************)
nodeGenInitializer(node, index) ==
    [kind |-> IF Len(node.children) = 0 THEN "gen(other)" ELSE "gen, other",
     index |-> index]

nodeGenConstructor(node) ==
    [name |-> nodeName(node).name,
     inits |-> IF ~node.generate THEN <<nodeGenInitializer(node, -1)>>
               ELSE [i \in 1..BitsToNat(parseInt(node.generate_size).bits) |->
                        nodeGenInitializer(node, i - 1)]]

(***************************************************************************)
(* nodeStruct(node, baseAddress).  A call is entered at pc = "call" and    *)
(* builds its struct at pc = "emit", after the calls for its composite     *)
(* children (the first loop) have returned.  A frame holds the call's      *)
(* node, its baseAddress argument and the child whose call is running.     *)
(* text lists the structs in the order the returned strings hold them.     *)
(***************************************************************************)
NextComposite(node, from) ==
    LET later == {k \in from..Len(node.children) : IsComposite(node.children[k])}
    IN  IF later = {} THEN 0 ELSE CHOOSE k \in later : \A j \in later : k <= j

\* The caller on top of frames goes on with its first loop, after the child it called.
Resume(frames) ==
    IF frames = <<>>
    THEN /\ pc' = "returned"
         /\ stack' = <<>>
         /\ callee' = callee
    ELSE \E top \in {frames[Len(frames)]} :
         \E k \in {NextComposite(NodeAt(schema, top.path), top.child + 1)} :
             IF k = 0
             THEN /\ pc' = "emit"
                  /\ stack' = frames
                  /\ callee' = callee
             ELSE /\ pc' = "call"
                  /\ stack' = [frames EXCEPT ![Len(frames)].child = k]
                  /\ callee' = [path |-> Append(top.path, k),
                                baseAddress |-> top.baseAddress]

Raise(e) ==
    /\ pc' = "aborted"
    /\ error' = e
    /\ UNCHANGED <<schema, hashOf, stack, callee, ALREADY_DECLARED, text, stdout>>

Called == NodeAt(schema, callee.path)

StructRaiseValueNode ==
    /\ pc = "call"
    /\ Len(Called.children) = 0
    /\ Raise("ValueNode")
    /\ UNCHANGED <<initCalls, maskVars, nameVars>>

StructRaiseName ==
    /\ pc = "call"
    /\ Len(Called.children) # 0
    /\ \E structName \in {nodeStructName(Called)} :
           /\ structName.err # "none"
           /\ Raise(structName.err)
    /\ UNCHANGED <<initCalls, maskVars, nameVars>>

StructSkip ==
    /\ pc = "call"
    /\ Len(Called.children) # 0
    /\ \E structName \in {nodeStructName(Called)} :
           /\ structName.err = "none"
           /\ structName.val \in ALREADY_DECLARED
    /\ Resume(stack)
    /\ UNCHANGED <<schema, hashOf, ALREADY_DECLARED, text, stdout, error, initCalls,
                   maskVars, nameVars>>

StructDeclare ==
    /\ pc = "call"
    /\ Len(Called.children) # 0
    /\ \E structName \in {nodeStructName(Called)} :
           /\ structName.err = "none"
           /\ structName.val \notin ALREADY_DECLARED
           /\ ALREADY_DECLARED' = ALREADY_DECLARED \cup {structName.val}
    /\ Resume(Append(stack, [path |-> callee.path,
                             baseAddress |-> callee.baseAddress, child |-> 0]))
    /\ UNCHANGED <<schema, hashOf, text, stdout, error, initCalls, maskVars, nameVars>>

\* The struct's body: the member declarations, then the two constructors.
\* calls are the nodeAddrInitializer calls made before the body was built or
\* an exception left it.
BodyOf(node, baseAddress, decls, addr) ==
    LET n == Len(node.children)
        declErr == FirstError([k \in 1..n |-> decls[k].err])
        addrErr == FirstError([k \in 1..n |-> addr[k].err])
        reached == {k \in 1..n : \A j \in 1..(k - 1) : addr[j].err = "none"}
    IN  IF declErr # "none"
        THEN [err |-> declErr, calls |-> {}]
        ELSE IF addrErr # "none"
        THEN [err |-> addrErr,
              calls |-> {[node |-> node.children[k],
                          result |-> nodeAddrInitializer(node.children[k])] :
                         k \in {j \in reached : addr[j].called}}]
        ELSE [err |-> "none",
              struct |-> [name |-> nodeStructName(node).val,
                          base |-> baseAddress,
                          members |-> decls,
                          addrCtor |-> addr,
                          genCtor |-> [k \in 1..n |->
                                          nodeGenConstructor(node.children[k])]],
              calls |-> {[node |-> node.children[k],
                          result |-> nodeAddrInitializer(node.children[k])] :
                         k \in {j \in 1..n : addr[j].called}}]

StructBody(node, baseAddress) ==
    With([k \in 1..Len(node.children) |-> nodeDecl(node.children[k])], LAMBDA decls :
        With([k \in 1..Len(node.children) |-> nodeAddrConstructor(node.children[k])],
             LAMBDA addr : BodyOf(node, baseAddress, decls, addr)))

TopFrame == stack[Len(stack)]

StructEmit ==
    /\ pc = "emit"
    /\ \E top \in {TopFrame} :
       \E body \in {StructBody(NodeAt(schema, top.path), top.baseAddress)} :
           /\ body.err = "none"
           /\ text' = Append(text, [path |-> top.path, struct |-> body.struct])
           /\ initCalls' = initCalls \cup body.calls
    /\ Resume(SubSeq(stack, 1, Len(stack) - 1))
    /\ UNCHANGED <<schema, hashOf, ALREADY_DECLARED, stdout, error, maskVars, nameVars>>

StructEmitRaise ==
    /\ pc = "emit"
    /\ \E top \in {TopFrame} :
       \E body \in {StructBody(NodeAt(schema, top.path), top.baseAddress)} :
           /\ body.err \notin {"none", "diverges"}
           /\ initCalls' = initCalls \cup body.calls
           /\ Raise(body.err)
    /\ UNCHANGED <<maskVars, nameVars>>

StructEmitDiverge ==
    /\ pc = "emit"
    /\ \E top \in {TopFrame} :
       \E body \in {StructBody(NodeAt(schema, top.path), top.baseAddress)} :
           /\ body.err = "diverges"
           /\ initCalls' = initCalls \cup body.calls
    /\ pc' = "checkMask"
    /\ UNCHANGED <<schema, hashOf, stack, callee, ALREADY_DECLARED, text, stdout,
                   error, maskVars, nameVars>>

(***************************************************************************)
(* The module's top level: print the scaffolding, print nodeStruct(root,   *)
(* 0x0), print the root instance.                                          *)
(***************************************************************************)
PrintScaffolding ==
    /\ pc = "start"
    /\ stdout' = Append(stdout, [kind |-> "scaffolding"])
    /\ pc' = "call"
    /\ callee' = [path |-> <<>>, baseAddress |-> 0]
    /\ UNCHANGED <<schema, hashOf, stack, ALREADY_DECLARED, text, error, initCalls,
                   maskVars, nameVars>>

PrintStructs ==
    /\ pc = "returned"
    /\ stdout' = Append(stdout, [kind |-> "structs", structs |-> text])
    /\ pc' = "instance"
    /\ UNCHANGED <<schema, hashOf, stack, callee, ALREADY_DECLARED, text, error,
                   initCalls, maskVars, nameVars>>

PrintRootInstance ==
    /\ pc = "instance"
    /\ stdout' = Append(stdout, [kind |-> "instance", type |-> nodeType(schema),
                                 name |-> nodeName(schema).name, base |-> 0])
    /\ pc' = "done"
    /\ UNCHANGED <<schema, hashOf, stack, callee, ALREADY_DECLARED, text, error,
                   initCalls, maskVars, nameVars>>

(***************************************************************************)
(* The inputs explored.                                                    *)
(***************************************************************************)
Str(c) == <<c>>

Placeholder == <<"$", "{", "i", "}">>

IdTokens ==
    {Str("a"), Str("3"), Str("_"), Str(" "), Str("$"), Str("{"), Str("i"), Str("}"),
     Placeholder}

ExampleId == <<"3", "c", "o", "u", "n", "t", "_">> \o Placeholder

NameInputs ==
    {[Node(id, NoDescription, NoLit, <<>>, NoLit, <<>>) EXCEPT
          !.generate = g, !.generate_idx_var = IF g THEN v ELSE <<>>] :
        id \in {Flatten(ts) : ts \in SeqsUpTo(IdTokens, MaxIdTokens)} \cup {ExampleId},
        g \in BOOLEAN, v \in {Str("i")}}

MaskInputs ==
    {NatToBits(n) : n \in 0..(Pow2(MaskBits) - 1)} \cup {FullMask}

Permissions == {<<>>, Str("r"), Str("w"), <<"r", "w">>}

MaskAttributes == {NoLit, Hex(<<15>>), Bin(<<1, 1, 0>>), Bin(<<1, 0, 1>>), Hex(<<0>>)}

AddressAttributes == {NoLit, Hex(<<2>>), Dec(<<1, 10>>)}

GenerateSizes == {Dec(<<n>>) : n \in 0..MaxGenerateSize}

Replications(node, id) ==
    {Generated([node EXCEPT !.id = id \o <<"_">> \o Placeholder], Str("i"), size,
               Hex(<<4>>)) : size \in GenerateSizes}

Register(address, permission, msk) ==
    Node(Str("r"), NoDescription, address, permission, msk, <<>>)

PlainRegisters == {Register(NoLit, <<"r", "w">>, NoLit), Register(Hex(<<2>>), Str("r"), NoLit)}

Registers ==
    {Register(a, p, k) : a \in AddressAttributes, p \in Permissions, k \in MaskAttributes}
    \cup {Node(id, "d", NoLit, <<"r", "w">>, NoLit, <<>>) : id \in {Str("3"), Str("$")}}
    \cup UNION {Replications(Register(Hex(<<2>>), p, k), Str("r")) :
                    p \in {Str("w"), <<"r", "w">>}, k \in {NoLit, Hex(<<15>>)}}

Block(description, address, children) ==
    Node(Str("b"), description, address, <<>>, NoLit, children)

InnerBlocks ==
    LET plain == {Block(d, a, <<r>>) : d \in {NoDescription, "d"},
                      a \in {NoLit, Hex(<<2>>)}, r \in PlainRegisters}
    IN  plain
        \cup UNION {Replications(Block(NoDescription, Hex(<<2>>), <<r>>), Str("b")) :
                        r \in PlainRegisters}
        \cup {Node(Str("$"), NoDescription, NoLit, <<>>, NoLit,
                   <<Register(NoLit, <<"r", "w">>, NoLit)>>)}

OuterBlocks ==
    {Block(NoDescription, a, <<b>>) : a \in {NoLit, Hex(<<2>>)}, b \in InnerBlocks}

FirstChildren == Registers \cup InnerBlocks \cup OuterBlocks

SecondChildren ==
    {Register(NoLit, <<"r", "w">>, NoLit), Register(NoLit, <<>>, NoLit),
     Register(Hex(<<2>>), Str("w"), Hex(<<15>>))}
    \cup {Block(NoDescription, a, <<Register(NoLit, <<"r", "w">>, NoLit)>>) :
              a \in {NoLit, Hex(<<2>>)}}

Root(address, children) ==
    Node(Str("t"), NoDescription, address, <<>>, NoLit, children)

Schemas ==
    Registers
    \cup {Root(a, <<c>>) : a \in {NoLit, Hex(<<2>>)}, c \in FirstChildren}
    \cup {Root(a, <<c, d>>) :
              a \in {NoLit, Hex(<<2>>)}, c \in FirstChildren, d \in SecondChildren}

(***************************************************************************)
(* The specifications: one run of the compiler on a schema; one call of    *)
(* checkMask; one call of nodeName.                                        *)
(***************************************************************************)
IdleMask == mask = <<>> /\ m = <<>> /\ cmPc = "idle"

IdleName ==
    /\ nameNode = Node(<<>>, NoDescription, NoLit, <<>>, NoLit, <<>>)
    /\ nameResult = [err |-> "idle", name |-> <<>>]

IdleRun ==
    /\ schema = Node(<<>>, NoDescription, NoLit, <<>>, NoLit, <<>>)
    /\ hashOf = <<>>
    /\ pc = "idle"
    /\ stack = <<>>
    /\ callee = [path |-> <<>>, baseAddress |-> 0]
    /\ ALREADY_DECLARED = {}
    /\ text = <<>>
    /\ stdout = <<>>
    /\ error = "none"
    /\ initCalls = {}

Init ==
    /\ schema \in Schemas
    /\ hashOf \in [Composites(schema) -> 0..(HashSpace - 1)]
    /\ pc = "start"
    /\ stack = <<>>
    /\ callee = [path |-> <<>>, baseAddress |-> 0]
    /\ ALREADY_DECLARED = {}
    /\ text = <<>>
    /\ stdout = <<>>
    /\ error = "none"
    /\ initCalls = {}
    /\ IdleMask
    /\ IdleName

Next ==
    \/ PrintScaffolding
    \/ StructRaiseValueNode
    \/ StructRaiseName
    \/ StructSkip
    \/ StructDeclare
    \/ StructEmit
    \/ StructEmitRaise
    \/ StructEmitDiverge
    \/ PrintStructs
    \/ PrintRootInstance

Spec == Init /\ [][Next]_vars

MaskInit ==
    /\ mask \in MaskInputs
    /\ m = <<>>
    /\ cmPc = "call"
    /\ IdleName
    /\ IdleRun

MaskNext ==
    \/ CheckMaskCall
    \/ DiscardZeros
    \/ DiscardOnes
    \/ CheckMaskRaise
    \/ CheckMaskReturn

\* checkMask runs alone and to completion: a step that can be taken is taken.
MaskSpec == MaskInit /\ [][MaskNext]_vars /\ WF_vars(MaskNext)

NameInit ==
    /\ nameNode \in NameInputs
    /\ nameResult = [err |-> "pending", name |-> <<>>]
    /\ IdleMask
    /\ IdleRun

NameNext ==
    \/ NodeNameReturn
    \/ NodeNameRaise

NameSpec == NameInit /\ [][NameNext]_vars

(***************************************************************************)
(* What the claims speak of.                                               *)
(***************************************************************************)
\* A single run of one bits above any number of zero bits: 0*1+ read from the top.
SingleRun(msk) ==
    \E zeros \in 0..Len(msk) : \E ones \in 1..Len(msk) :
        msk = Repeat(0, zeros) \o Repeat(1, ones)

\* The value of an address attribute, 0 when it is absent.
AddressOf(node) ==
    IF parseInt(node.address).isNone THEN 0
    ELSE BitsToNat(parseInt(node.address).bits)

WellFormed(lit) == parseInt(lit).err = "none"

\* The sum of the relative addresses from the node at `from` levels below the
\* root down to the node at path.
RECURSIVE AddressSum(_, _)
AddressSum(path, from) ==
    IF Len(path) < from THEN 0
    ELSE AddressOf(NodeAt(schema, path)) +
         (IF path = <<>> THEN 0
          ELSE AddressSum(SubSeq(path, 1, Len(path) - 1), from))

Prefixes(path) == {SubSeq(path, 1, k) : k \in 0..Len(path)}

Emitted(path) == \E k \in 1..Len(text) : text[k].path = path

StructAt(path) == text[CHOOSE k \in 1..Len(text) : text[k].path = path].struct

\* getAddress of the scaffolding; every value explored stays below 2^31, where
\* the std::uint32_t arithmetic does not wrap.
Origin == 1677721600

getAddress(base, local) == ((base + local) * 4) + Origin

\* The base the emitted constructors hand down to the node at path, from the
\* root instance's argument.
RECURSIVE HandedBase(_)
HandedBase(path) ==
    IF path = <<>> THEN stdout[Len(stdout)].base
    ELSE LET parent == SubSeq(path, 1, Len(path) - 1)
         IN  HandedBase(parent) +
             StructAt(parent).addrCtor[path[Len(path)]].inits[1].address

HandedAddress(path) ==
    LET parent == SubSeq(path, 1, Len(path) - 1)
    IN  getAddress(HandedBase(parent),
                   StructAt(parent).addrCtor[path[Len(path)]].inits[1].address)

PlainLeafPaths ==
    {p \in PathsOf(schema) :
        /\ p # <<>>
        /\ ~IsComposite(NodeAt(schema, p))
        /\ \A q \in Prefixes(p) : ~NodeAt(schema, q).generate
        /\ \A q \in Prefixes(p) \ {p} : Emitted(q)}

CompositePaths == {p \in PathsOf(schema) : IsComposite(NodeAt(schema, p))}

\* No two different serialisations of the schema got one struct name.
NoCollision ==
    \A a, b \in DOMAIN hashOf :
        (a # b /\ nodeName(a).err = "none") => nodeStructName(a) # nodeStructName(b)

\* C1: every instance i of a replicated child is constructed with its relative
\* address plus i times generate_address_step.
C1_Claim ==
    NoCollision => \A k \in 1..Len(text) :
        LET node == NodeAt(schema, text[k].path)
        IN  \A c \in 1..Len(node.children) :
                node.children[c].generate =>
                    \A i \in 1..Len(text[k].struct.addrCtor[c].inits) :
                        text[k].struct.addrCtor[c].inits[i].address =
                            AddressOf(node.children[c]) + (i - 1) *
                            BitsToNat(parseInt(node.children[c].generate_address_step).bits)

\* C2: once the run is done, every non-replicated leaf under non-replicated
\* composites is handed ((the relative addresses of all its ancestors, the root
\* included, plus its own) << 2) + 0x64000000.
C2_Claim ==
    (pc = "done" /\ NoCollision) =>
        \A p \in PlainLeafPaths :
            HandedAddress(p) = (AddressSum(p, 0) * 4) + Origin

\* C3: once the run is done, two composites of one name with the same children
\* have one struct name and one declaration, whatever their own attributes.
C3_Claim ==
    (pc = "done" /\ NoCollision) =>
        \A p, q \in CompositePaths :
            (/\ p # q
             /\ NodeAt(schema, p).children = NodeAt(schema, q).children
             /\ nodeName(NodeAt(schema, p)).err = "none"
             /\ nodeName(NodeAt(schema, p)) = nodeName(NodeAt(schema, q)))
            => /\ nodeStructName(NodeAt(schema, p)) = nodeStructName(NodeAt(schema, q))
               /\ Cardinality({k \in 1..Len(text) :
                      text[k].struct.name \in
                          {nodeStructName(NodeAt(schema, p)).val,
                           nodeStructName(NodeAt(schema, q)).val}}) = 1

\* C4: checkMask(mask) returns exactly for the masks that are a single run of
\* one bits above their trailing zeros, and raises for no such mask.
C4_Theorem ==
    /\ [](cmPc = "returned" => SingleRun(mask))
    /\ [](cmPc = "raised" => ~SingleRun(mask))
    /\ [](SingleRun(mask) => <>(cmPc = "returned"))

C4_Witness == cmPc = "returned" /\ mask = <<0, 0, 1, 1, 1>>

\* C5: checkMask returns for mask 0 and for mask 0xffffffff.
C5_Claim == (mask \in {<<>>, FullMask}) ~> (cmPc = "returned")

\* C6: whenever nodeAddrInitializer is called on a leaf with a well-formed
\* address and a single-run mask other than 0xffffffff, permission w without r
\* raises the masked-write error, and permission r and w yields the address
\* with that mask.
C6_Theorem ==
    \A call \in initCalls :
        LET node == call.node
            msk == parseInt(node.mask)
            read == Contains(node.permission, "r")
            write == Contains(node.permission, "w")
        IN  (/\ ~IsComposite(node)
             /\ WellFormed(node.address)
             /\ node.mask # NoLit
             /\ WellFormed(node.mask)
             /\ SingleRun(msk.bits)
             /\ msk.bits # FullMask)
            => /\ (write /\ ~read) => call.result.err = "InvalidMaskedWrite"
               /\ (write /\ read) =>
                      /\ call.result.err = "none"
                      /\ call.result.kind = "getAddress"
                      /\ call.result.address = AddressOf(node)
                      /\ call.result.withMask
                      /\ call.result.mask = msk.bits

C6_Witness ==
    /\ pc = "aborted"
    /\ error = "InvalidMaskedWrite"
    /\ \E good, bad \in initCalls :
           /\ good.node.mask = Hex(<<15>>)
           /\ good.node.permission = <<"r", "w">>
           /\ good.result.err = "none"
           /\ bad.node.mask = Hex(<<15>>)
           /\ bad.node.permission = Str("w")
           /\ bad.result.err = "InvalidMaskedWrite"

\* C7: a run that a validation error aborts has written nothing to standard
\* output.
C7_Claim == pc = "aborted" => stdout = <<>>

\* C8: nodeName returns a valid identifier or raises; the candidate is the id
\* (without the index placeholders of a replicated node) trimmed of surrounding
\* whitespace, returned as it is when valid, with reg_ before it when that is
\* valid, and the error otherwise; "3count_${i}" gives reg_3count.
IsTrimOf(s, t) ==
    /\ \E before, after \in 0..Len(s) :
           s = Repeat(" ", before) \o t \o Repeat(" ", after)
    /\ t # <<>> => t[1] # " " /\ t[Len(t)] # " "

C8_Theorem ==
    nameResult.err # "pending" =>
        LET candidate == Candidate(nameNode)
        IN  /\ nameResult.err \in {"none", "InvalidIdentifier"}
            /\ nameResult.err = "none" => isidentifier(nameResult.name)
            /\ ~nameNode.generate => IsTrimOf(nameNode.id, candidate)
            /\ nameNode.generate =>
                   IsTrimOf(reSub(nameNode.generate_idx_var, nameNode.id), candidate)
            /\ isidentifier(candidate) => nameResult = [err |-> "none", name |-> candidate]
            /\ (~isidentifier(candidate) /\ isidentifier(RegPrefix \o candidate)) =>
                   nameResult = [err |-> "none", name |-> RegPrefix \o candidate]
            /\ (~isidentifier(candidate) /\ ~isidentifier(RegPrefix \o candidate)) =>
                   nameResult.err = "InvalidIdentifier"
            /\ (nameNode.id = ExampleId /\ nameNode.generate) =>
                   nameResult.name = <<"r", "e", "g", "_", "3", "c", "o", "u", "n", "t">>

C8_Witness ==
    /\ nameNode.id = ExampleId
    /\ nameNode.generate
    /\ nameResult = [err |-> "none",
                     name |-> <<"r", "e", "g", "_", "3", "c", "o", "u", "n", "t">>]

\* C9: in the text nodeStruct has returned, no struct name is declared twice,
\* and a struct with a member of a struct type comes after that type's
\* declaration.
C9_Claim ==
    \A k \in 1..Len(text) :
        /\ \A j \in 1..(k - 1) : text[j].struct.name # text[k].struct.name
        /\ \A c \in 1..Len(text[k].struct.members) :
               text[k].struct.members[c].type.base = "struct" =>
                   \E j \in 1..(k - 1) :
                       text[j].struct.name = text[k].struct.members[c].type.struct

\* C10: the default base of a struct's address-based constructor is the base at
\* which the composite sits: the relative addresses accumulated below the root.
C10_Claim ==
    NoCollision => \A k \in 1..Len(text) :
        (\A q \in Prefixes(text[k].path) : ~NodeAt(schema, q).generate)
        => text[k].struct.base = AddressSum(text[k].path, 1)

====
